---- MODULE Spec2Model ----
(***************************************************************************)
(* Model of PSD_parquet_processing_scripts/git_action_batch.py: the        *)
(* bookmark (checkpoint) file, the day partitioning of process_audio_data  *)
(* and the controller main().                                              *)
(*                                                                         *)
(* A timezone-aware datetime is a record [t, off]: t is the instant in     *)
(* whole hours since 1970-01-01T00:00 UTC and off the UTC offset in hours  *)
(* of its tzinfo.  Both a pytz-localized datetime and one read back by     *)
(* datetime.fromisoformat carry a fixed offset, so wall-clock fields       *)
(* (date(), day, strftime, isoformat) are those of t + off, while          *)
(* comparisons (<, ==) are those of t.                                     *)
(***************************************************************************)
EXTENDS Integers, Sequences, FiniteSets, TLC

VARIABLES
    clock,            \* last wall-clock reading taken by main (UTC hours)
    file,             \* contents of the bookmark file
    last_processed,   \* Bookmark.last_processed of the running process
    hydrophone,       \* the hydrophone argument
    pc,               \* position inside process_audio_data / Bookmark.update
    start_time,       \* local of process_audio_data (reassigned at line 93)
    end_time,         \* local of process_audio_data
    dates_array,      \* local of process_audio_data: day numbers
    i,                \* loop index of line 76 (0-based, as in the code)
    intermediate_end, \* local of process_audio_data
    outcome,          \* how the last call of process_audio_data / main ended
    calls,            \* history: pipeline invocations of the current run
    writes,           \* history: values Bookmark.update opened the file for, this run
    arg_start,        \* history: the start_time the run was called with
    arg_end,          \* history: the end_time the run was called with
    pre,              \* history: checkpoint (file, memory) when the run began
    prev              \* history: the failed run that the current run retries

vars == <<clock, file, last_processed, hydrophone, pc, start_time, end_time,
          dates_array, i, intermediate_end, outcome, calls, writes,
          arg_start, arg_end, pre, prev>>

----------------------------------------------------------------------------
(* Bounds of the model *)

\* main is run on the days BaseDay .. BaseDay + MaxDay (and one month before)
MaxDay == 2

----------------------------------------------------------------------------
(* The proleptic Gregorian calendar of datetime.date *)

\* date(y, m, d) -> days since 1970-01-01
DaysFromCivil(y, m, d) ==
    LET yy  == IF m <= 2 THEN y - 1 ELSE y
        era == yy \div 400
        yoe == yy - era * 400
        mp  == IF m > 2 THEN m - 3 ELSE m + 9
        doy == (153 * mp + 2) \div 5 + d - 1
        doe == yoe * 365 + yoe \div 4 - yoe \div 100 + doy
    IN  era * 146097 + doe - 719468

\* days since 1970-01-01 -> [year, month, day]
CivilFromDays(z) ==
    LET zz  == z + 719468
        era == zz \div 146097
        doe == zz - era * 146097
        yoe == (doe - doe \div 1460 + doe \div 36524 - doe \div 146096) \div 365
        doy == doe - (365 * yoe + yoe \div 4 - yoe \div 100)
        mp  == (5 * doy + 2) \div 153
        d   == doy - (153 * mp + 2) \div 5 + 1
        m   == IF mp < 10 THEN mp + 3 ELSE mp - 9
    IN  [year |-> yoe + era * 400 + (IF m <= 2 THEN 1 ELSE 0), month |-> m, day |-> d]

\* datetime.date(): the day number of the wall-clock date
DateOf(ts) == (ts.t + ts.off) \div 24

\* datetime.hour
HourOf(ts) == (ts.t + ts.off) % 24

\* datetime.day: the day of the month
DayOfMonth(ts) == CivilFromDays(DateOf(ts)).day

\* dt.datetime(year, month, day, tzinfo=tz): midnight of a date at a fixed offset
MidnightOf(date, off) == [t |-> date * 24 - off, off |-> off]

----------------------------------------------------------------------------
(* Bookmark *)

None == [kind |-> "None"]
Absent == [kind |-> "absent"]
Empty == [kind |-> "empty"]

\* a variant of IsoFormat: the wall-clock fields are written with a UTC
\* designator whatever the offset is
IsoFormat_DropsOffset(ts) ==
    LET c == CivilFromDays(DateOf(ts))
    IN  [year |-> c.year, month |-> c.month, day |-> c.day,
         hour |-> HourOf(ts), off |-> 0]

\* datetime.isoformat(): the wall-clock fields and the offset, as text
IsoFormat(ts) ==
    LET c == CivilFromDays(DateOf(ts))
    IN  [year |-> c.year, month |-> c.month, day |-> c.day,
         hour |-> HourOf(ts), off |-> ts.off]

\* datetime.fromisoformat()
FromIsoFormat(s) ==
    [t |-> DaysFromCivil(s.year, s.month, s.day) * 24 + s.hour - s.off, off |-> s.off]

\* json.dump({'last_processed': ...}, f)
JsonDump(ts) == [kind |-> "json", last_processed |-> IsoFormat(ts)]

\* Bookmark.load on an existing, complete file
LoadValue(f) == IF f = Absent THEN None ELSE FromIsoFormat(f.last_processed)

----------------------------------------------------------------------------
(* process_audio_data: the pure parts *)

HydrophoneNames == {"BUSH_POINT", "ORCASOUND_LAB", "PORT_TOWNSEND", "SUNSET_BAY"}

\* line 71: the test that selects the partitioned branch
DaysDiffer(s, e) == DayOfMonth(s) # DayOfMonth(e)

\* lines 72-74
DatesArray(s, e) ==
    LET n == (DateOf(e) - DateOf(s)) + 1
    IN  [x \in 1..(IF n > 0 THEN n ELSE 0) |-> DateOf(s) + (x - 1)]

\* lines 77-80: where partition idx (0-based) of the loop ends
IntermediateEnd(dates, idx, s, e) ==
    IF idx = Len(dates) - 1
    THEN e
    ELSE MidnightOf(dates[idx + 1] + 1, s.off)

\* lines 78 and 95: f"data/hydrophone={hydrophone}/date={...strftime('%Y-%m-%d')}/"
PartitionFolder(hyd, date) == [hydrophone |-> hyd, date |-> CivilFromDays(date)]

\* lines 70-105 as a function: the pipeline invocations of a run that nothing
\* interrupts, in order
PlanOf(s, e, hyd) ==
    IF DaysDiffer(s, e)
    THEN LET dates == DatesArray(s, e)
         IN  [k \in 1..Len(dates) |->
                [sub_start |-> IF k = 1 THEN s
                               ELSE IntermediateEnd(dates, k - 2, s, e),
                 sub_end   |-> IntermediateEnd(dates, k - 1, s, e),
                 folder    |-> PartitionFolder(hyd, dates[k])]]
    ELSE << [sub_start |-> s, sub_end |-> e,
             folder |-> PartitionFolder(hyd, DateOf(s))] >>

----------------------------------------------------------------------------
(* main: the clock and the effective range *)

\* line 129: dt.timedelta(hours=1)
DefaultLookbackHours == 1

\* pytz.timezone('US/Pacific') in 2026: PDT from 2026-03-08T10:00Z to
\* 2026-11-01T09:00Z, PST otherwise
PacificOffset(t) ==
    IF /\ t >= DaysFromCivil(2026, 3, 8) * 24 + 10
       /\ t <  DaysFromCivil(2026, 11, 1) * 24 + 9
    THEN 0 - 7
    ELSE 0 - 8

\* line 123: dt.datetime.now(pytz.timezone('US/Pacific'))
Now(t) == [t |-> t, off |-> PacificOffset(t)]

\* a variant of EffectiveStart: the loaded checkpoint is ignored
EffectiveStart_AlwaysLookback(lp, now) ==
    [t |-> now.t - DefaultLookbackHours, off |-> now.off]

\* line 129
EffectiveStart(lp, now) ==
    IF lp = None
    THEN [t |-> now.t - DefaultLookbackHours, off |-> now.off]
    ELSE lp

----------------------------------------------------------------------------
(* The inputs the model draws from *)

BaseDay == DaysFromCivil(2026, 3, 7)

\* the same day of the month, one month earlier
MonthBefore == DaysFromCivil(2026, 2, 7)

InputDays == {MonthBefore} \cup (BaseDay .. BaseDay + MaxDay)

\* wall-clock hours of the inputs: midnight, early morning, late evening
LocalHours == {0, 1, 23}

Offsets == {0 - 8, 0 - 7, 0}

\* the readings of the US/Pacific clock whose wall-clock time is an input time
ClockTicks ==
    {t \in (MonthBefore * 24) .. ((BaseDay + MaxDay + 2) * 24) :
        /\ DateOf(Now(t)) \in InputDays
        /\ HourOf(Now(t)) \in LocalHours}

\* the datetimes process_audio_data is called with directly
CallStamps ==
    {[t |-> d * 24 + h - o, off |-> o] : d \in InputDays, h \in LocalHours, o \in Offsets}

----------------------------------------------------------------------------
(* The state machine *)

\* entering process_audio_data(s, e, hyd, bookmark)
BeginRun(s, e, hyd) ==
    /\ start_time' = s
    /\ end_time' = e
    /\ hydrophone' = hyd
    /\ arg_start' = s
    /\ arg_end' = e
    /\ dates_array' = << >>
    /\ i' = 0
    /\ intermediate_end' = None
    /\ calls' = << >>
    /\ writes' = << >>
    /\ outcome' = "none"
    /\ pc' = "entry"

\* No run has happened yet: no bookmark file, the clock at the start of the window
Init ==
    /\ clock = MonthBefore * 24
    /\ file = Absent
    /\ last_processed = None
    /\ hydrophone = "BUSH_POINT"
    /\ pc = "idle"
    /\ start_time = None
    /\ end_time = None
    /\ dates_array = << >>
    /\ i = 0
    /\ intermediate_end = None
    /\ outcome = "none"
    /\ calls = << >>
    /\ writes = << >>
    /\ arg_start = None
    /\ arg_end = None
    /\ pre = [file |-> Absent, last_processed |-> None]
    /\ prev = None

\* process_audio_data called directly, as the tests do: a fresh Bookmark on a
\* path where no file exists, and any two datetimes
InitCall ==
    /\ clock = MonthBefore * 24
    /\ file = Absent
    /\ last_processed = None
    /\ hydrophone \in {"BUSH_POINT", "UNKNOWN"}
    /\ pc = "entry"
    /\ start_time \in CallStamps
    /\ end_time \in CallStamps
    /\ dates_array = << >>
    /\ i = 0
    /\ intermediate_end = None
    /\ outcome = "none"
    /\ calls = << >>
    /\ writes = << >>
    /\ arg_start = start_time
    /\ arg_end = end_time
    /\ pre = [file |-> Absent, last_processed |-> None]
    /\ prev = None

\* what main remembers of the run before it, when it repeats a run that a
\* pipeline failure ended, at the same reading of the clock
RetriedRun(now) ==
    IF outcome = "PipelineError" /\ arg_end = now
    THEN [start |-> arg_start, end |-> arg_end, k |-> Len(calls)]
    ELSE None

\* a variant of Main: Bookmark.load catches every exception, so a file that
\* cannot be decoded is taken for a missing one
Main_SwallowsEveryError(t) ==
    /\ pc = "idle"
    /\ t >= clock
    /\ clock' = t
    /\ LET lp  == IF file = Empty THEN None ELSE LoadValue(file)
           now == Now(t)
       IN  /\ last_processed' = lp
           /\ pre' = [file |-> file, last_processed |-> lp]
           /\ prev' = RetriedRun(now)
           /\ BeginRun(EffectiveStart(lp, now), now, "BUSH_POINT")
    /\ UNCHANGED file

\* main, lines 123-132, up to the call of process_audio_data; Bookmark.load,
\* lines 24-30
Main(t) ==
    /\ pc = "idle"
    /\ t >= clock
    /\ clock' = t
    /\ IF file = Empty
       THEN \* json.load raises JSONDecodeError, which load does not catch
            /\ outcome' = "JSONDecodeError"
            /\ last_processed' = None
            /\ prev' = None
            /\ UNCHANGED <<hydrophone, pc, start_time, end_time, dates_array, i,
                           intermediate_end, calls, writes, arg_start, arg_end, pre>>
       ELSE LET lp  == LoadValue(file)
                now == Now(t)
            IN  /\ last_processed' = lp
                /\ pre' = [file |-> file, last_processed |-> lp]
                /\ prev' = RetriedRun(now)
                /\ BeginRun(EffectiveStart(lp, now), now, "BUSH_POINT")
    /\ UNCHANGED file

\* get_hydrophone_enum, lines 52-54, reached from line 75 or line 96
EntryUnknownHydrophone ==
    /\ pc = "entry"
    /\ hydrophone \notin HydrophoneNames
    /\ outcome' = "ValueError"
    /\ pc' = "idle"
    /\ UNCHANGED <<clock, file, last_processed, hydrophone, start_time, end_time,
                   dates_array, i, intermediate_end, calls, writes,
                   arg_start, arg_end, pre, prev>>

\* lines 71-75 (partitioned branch) or 95-96 (single branch)
Entry ==
    /\ pc = "entry"
    /\ hydrophone \in HydrophoneNames
    /\ IF DaysDiffer(start_time, end_time)
       THEN /\ dates_array' = DatesArray(start_time, end_time)
            /\ pc' = IF Len(dates_array') > 0 THEN "loop" ELSE "final"
       ELSE /\ dates_array' = << >>
            /\ pc' = "single"
    /\ i' = 0
    /\ UNCHANGED <<clock, file, last_processed, hydrophone, start_time, end_time,
                   intermediate_end, outcome, calls, writes,
                   arg_start, arg_end, pre, prev>>

\* a variant of ThisCall: the single branch passes its two datetimes in the
\* wrong order
ThisCall_SwappedArguments ==
    IF pc = "single"
    THEN [sub_start |-> end_time, sub_end |-> start_time,
          folder |-> PartitionFolder(hydrophone, DateOf(start_time))]
    ELSE [sub_start |-> start_time,
          sub_end |-> IntermediateEnd(dates_array, i, start_time, end_time),
          folder |-> PartitionFolder(hydrophone, dates_array[i + 1])]

\* a variant of ThisCall: the folder is named after the date on which the
\* interval ends
ThisCall_FolderOfEnd ==
    IF pc = "single"
    THEN [sub_start |-> start_time, sub_end |-> end_time,
          folder |-> PartitionFolder(hydrophone, DateOf(end_time))]
    ELSE [sub_start |-> start_time,
          sub_end |-> IntermediateEnd(dates_array, i, start_time, end_time),
          folder |-> PartitionFolder(hydrophone,
                        DateOf(IntermediateEnd(dates_array, i, start_time, end_time)))]

\* the invocation at lines 77-90 (loop) or 95-105 (single branch)
ThisCall ==
    IF pc = "single"
    THEN [sub_start |-> start_time, sub_end |-> end_time,
          folder |-> PartitionFolder(hydrophone, DateOf(start_time))]
    ELSE [sub_start |-> start_time,
          sub_end |-> IntermediateEnd(dates_array, i, start_time, end_time),
          folder |-> PartitionFolder(hydrophone, dates_array[i + 1])]

\* a variant of PipelineReturns: the loop goes on to the next partition without
\* the bookmark update of line 92, leaving the checkpoint to the final update
PipelineReturns_DefersUpdate ==
    /\ pc \in {"loop", "single"}
    /\ calls' = Append(calls, ThisCall)
    /\ intermediate_end' = IF pc = "loop" THEN ThisCall.sub_end ELSE intermediate_end
    /\ IF pc = "loop"
       THEN /\ start_time' = ThisCall.sub_end
            /\ i' = i + 1
            /\ pc' = IF i + 1 < Len(dates_array) THEN "loop" ELSE "final"
       ELSE /\ pc' = "final"
            /\ UNCHANGED <<start_time, i>>
    /\ UNCHANGED <<clock, file, last_processed, hydrophone, end_time,
                   dates_array, outcome, writes, arg_start, arg_end, pre, prev>>

\* NoiseAnalysisPipeline(...).generate_parquet_file(...) returns
PipelineReturns ==
    /\ pc \in {"loop", "single"}
    /\ calls' = Append(calls, ThisCall)
    /\ intermediate_end' = IF pc = "loop" THEN ThisCall.sub_end ELSE intermediate_end
    /\ pc' = IF pc = "loop" THEN "update" ELSE "final"
    /\ UNCHANGED <<clock, file, last_processed, hydrophone, start_time, end_time,
                   dates_array, i, outcome, writes, arg_start, arg_end, pre, prev>>

\* a variant of PipelineRaises: the bookmark is advanced to the partition's end
\* before the pipeline is invoked, so a failing partition is already recorded
PipelineRaises_BookmarkFirst ==
    /\ pc \in {"loop", "single"}
    /\ calls' = Append(calls, ThisCall)
    /\ intermediate_end' = IF pc = "loop" THEN ThisCall.sub_end ELSE intermediate_end
    /\ last_processed' = ThisCall.sub_end
    /\ writes' = Append(writes, ThisCall.sub_end)
    /\ file' = JsonDump(ThisCall.sub_end)
    /\ outcome' = "PipelineError"
    /\ pc' = "idle"
    /\ UNCHANGED <<clock, hydrophone, start_time, end_time,
                   dates_array, i, arg_start, arg_end, pre, prev>>

\* a variant of PipelineRaises: the failure is caught and noted, and the run
\* goes on to the bookmark update and the next partition
PipelineRaises_Continues ==
    /\ pc \in {"loop", "single"}
    /\ calls' = Append(calls, ThisCall)
    /\ intermediate_end' = IF pc = "loop" THEN ThisCall.sub_end ELSE intermediate_end
    /\ outcome' = "PipelineError"
    /\ pc' = IF pc = "loop" THEN "update" ELSE "final"
    /\ UNCHANGED <<clock, file, last_processed, hydrophone, start_time, end_time,
                   dates_array, i, writes, arg_start, arg_end, pre, prev>>

\* NoiseAnalysisPipeline(...).generate_parquet_file(...) raises: nothing in
\* process_audio_data or main catches it
PipelineRaises ==
    /\ pc \in {"loop", "single"}
    /\ calls' = Append(calls, ThisCall)
    /\ intermediate_end' = IF pc = "loop" THEN ThisCall.sub_end ELSE intermediate_end
    /\ outcome' = "PipelineError"
    /\ pc' = "idle"
    /\ UNCHANGED <<clock, file, last_processed, hydrophone, start_time, end_time,
                   dates_array, i, writes, arg_start, arg_end, pre, prev>>

\* a variant of UpdateArgument: the final update passes start_time
UpdateArgument_FinalIsStart == IF pc = "update" THEN intermediate_end ELSE start_time

\* the argument of bookmark.update at line 92 or at line 108
UpdateArgument == IF pc = "update" THEN intermediate_end ELSE end_time

\* Bookmark.update, lines 20-21: the attribute is set and the file is opened
\* for writing, which truncates it
UpdateOpen ==
    /\ pc \in {"update", "final"}
    /\ last_processed' = UpdateArgument
    /\ writes' = Append(writes, UpdateArgument)
    /\ file' = Empty
    /\ pc' = IF pc = "update" THEN "update_write" ELSE "final_write"
    /\ UNCHANGED <<clock, hydrophone, start_time, end_time, dates_array, i,
                   intermediate_end, outcome, calls, arg_start, arg_end, pre, prev>>

\* Bookmark.update, line 22, and the return from it: line 93 and the loop test
\* of line 76, or the return of process_audio_data after line 108
UpdateWrite ==
    /\ pc \in {"update_write", "final_write"}
    /\ file' = JsonDump(last_processed)
    /\ IF pc = "update_write"
       THEN /\ start_time' = intermediate_end
            /\ i' = i + 1
            /\ pc' = IF i + 1 < Len(dates_array) THEN "loop" ELSE "final"
            /\ UNCHANGED outcome
       ELSE /\ outcome' = "returned"
            /\ pc' = "idle"
            /\ UNCHANGED <<start_time, i>>
    /\ UNCHANGED <<clock, last_processed, hydrophone, end_time, dates_array,
                   intermediate_end, calls, writes, arg_start, arg_end, pre, prev>>

\* a variant of UpdateOpenFails: the error is caught inside the loop, and the
\* run goes on to the next partition
UpdateOpenFails_Continues ==
    /\ pc \in {"update", "final"}
    /\ last_processed' = UpdateArgument
    /\ outcome' = "OSError"
    /\ IF pc = "update"
       THEN /\ start_time' = intermediate_end
            /\ i' = i + 1
            /\ pc' = IF i + 1 < Len(dates_array) THEN "loop" ELSE "final"
       ELSE /\ pc' = "idle"
            /\ UNCHANGED <<start_time, i>>
    /\ UNCHANGED <<clock, file, hydrophone, end_time, dates_array,
                   intermediate_end, calls, writes, arg_start, arg_end, pre, prev>>

\* Bookmark.update, lines 20-21, when open(path, 'w') raises (no directory, no
\* permission): the attribute is already set, the file is as it was, and
\* nothing in Bookmark.update, process_audio_data or main catches the error
UpdateOpenFails ==
    /\ pc \in {"update", "final"}
    /\ last_processed' = UpdateArgument
    /\ outcome' = "OSError"
    /\ pc' = "idle"
    /\ UNCHANGED <<clock, file, hydrophone, start_time, end_time, dates_array, i,
                   intermediate_end, calls, writes, arg_start, arg_end, pre, prev>>

\* Bookmark.update, line 22, when json.dump or the close of the file raises
\* (disk full): the file, already truncated by line 21, stays without a record
UpdateWriteFails ==
    /\ pc \in {"update_write", "final_write"}
    /\ outcome' = "OSError"
    /\ pc' = "idle"
    /\ UNCHANGED <<clock, file, last_processed, hydrophone, start_time, end_time,
                   dates_array, i, intermediate_end, calls, writes,
                   arg_start, arg_end, pre, prev>>

\* the process is killed, or the workflow's timeout ends it, wherever it is
\* inside process_audio_data or Bookmark.update: nothing more is executed
Kill ==
    /\ pc # "idle"
    /\ outcome' = "Killed"
    /\ pc' = "idle"
    /\ UNCHANGED <<clock, file, last_processed, hydrophone, start_time, end_time,
                   dates_array, i, intermediate_end, calls, writes,
                   arg_start, arg_end, pre, prev>>

\* the controller: main run again and again under the US/Pacific clock
Next ==
    \/ \E t \in ClockTicks : Main(t)
    \/ Entry
    \/ PipelineReturns
    \/ PipelineRaises
    \/ UpdateOpen
    \/ UpdateWrite

Spec == Init /\ [][Next]_vars

\* one direct call of process_audio_data
NextCall ==
    \/ EntryUnknownHydrophone
    \/ Entry
    \/ PipelineReturns
    \/ PipelineRaises
    \/ UpdateOpen
    \/ UpdateWrite
    \/ UpdateOpenFails
    \/ UpdateWriteFails

SpecCall == InitCall /\ [][NextCall]_vars

\* the controller, when a run can also be stopped from outside at any step
NextKill ==
    \/ \E t \in ClockTicks : Main(t)
    \/ Entry
    \/ PipelineReturns
    \/ PipelineRaises
    \/ UpdateOpen
    \/ UpdateWrite
    \/ Kill

SpecKill == Init /\ [][NextKill]_vars

----------------------------------------------------------------------------
(* Properties *)

\* the run in progress, or the last one, was given a range with end > start
NonEmptyRange == arg_start # None /\ arg_end.t > arg_start.t

\* the run in progress, or the last one, was given a range with end <= start
EmptyOrInvertedRange == arg_start # None /\ arg_end.t <= arg_start.t

\* the pipeline invocations of the uninterrupted run over the range of the
\* current run
FullPlan == PlanOf(arg_start, arg_end, hydrophone)

\* C1: across the runs of main for one hydrophone, every value passed to
\* Bookmark.update is greater than or equal to the value it replaces: the
\* checkpoint the run began with (when there was one), or the value of the
\* update before it.
C1_CheckpointNeverDecreases ==
    \A j \in 1..Len(writes) :
        IF j = 1
        THEN pre.last_processed # None => writes[1].t >= pre.last_processed.t
        ELSE writes[j].t >= writes[j - 1].t

\* C2: when the pipeline invocation for partition k raises, the checkpoint, in
\* memory and on disk, is the end of partition k-1 of the plan, or what it was
\* when the run began if k = 1; the updates made are those of partitions
\* 1..k-1 and none was made for partition k.
C2_FailureLeavesPreviousPartitionEnd ==
    outcome = "PipelineError" =>
        LET k == Len(calls)
        IN  /\ k >= 1
            /\ Len(writes) = k - 1
            /\ \A j \in 1..(k - 1) : writes[j] = FullPlan[j].sub_end
            /\ IF k = 1
               THEN /\ file = pre.file
                    /\ last_processed = pre.last_processed
               ELSE /\ last_processed = FullPlan[k - 1].sub_end
                    /\ file = JsonDump(FullPlan[k - 1].sub_end)
                    /\ LoadValue(file) = FullPlan[k - 1].sub_end

C2_Witness ==
    /\ outcome = "PipelineError"
    /\ Len(calls) >= 2
    /\ Len(calls) < Len(FullPlan)
    /\ pre.file # Absent
    /\ file # pre.file

\* C3: a run of main that repeats, with the same end time, a run that failed at
\* partition k invokes the pipeline on exactly partitions k..n of the plan of
\* the failed run's range, with the same bounds and folders.
C3_RetryResumesSamePartitions ==
    prev # None =>
        LET full == PlanOf(prev.start, prev.end, hydrophone)
            rest == SubSeq(full, prev.k, Len(full))
        IN  /\ Len(calls) <= Len(rest)
            /\ \A j \in 1..Len(calls) : calls[j] = rest[j]
            /\ outcome = "returned" => Len(calls) = Len(rest)

\* C4: for a range with end > start, the intervals passed to the pipeline by a
\* call that returns start at start, each begin where the one before ended,
\* and end at end.
C4_PartitionsContiguousAndCover ==
    (outcome = "returned" /\ NonEmptyRange) =>
        /\ Len(calls) >= 1
        /\ calls[1].sub_start = arg_start
        /\ \A j \in 2..Len(calls) : calls[j].sub_start = calls[j - 1].sub_end
        /\ calls[Len(calls)].sub_end = arg_end

\* C5: for a range with end > start whose ends are on different calendar
\* dates, a call that returns has invoked the pipeline once per date from
\* start's date to end's date, and every partition but the last ends at the
\* midnight that begins the next date.
C5_OnePartitionPerCalendarDate ==
    (outcome = "returned" /\ NonEmptyRange /\ DateOf(arg_start) # DateOf(arg_end)) =>
        /\ Len(calls) = DateOf(arg_end) - DateOf(arg_start) + 1
        /\ \A j \in 1..(Len(calls) - 1) :
               calls[j].sub_end.t = MidnightOf(DateOf(arg_start) + j, arg_start.off).t

\* C6: for a range with end > start whose ends are on the same calendar date,
\* the pipeline is invoked at most once, with (start, end) unchanged and the
\* folder of that date, and exactly once by the time the call has passed the
\* invocation.
C6_SameDateSinglePartition ==
    (NonEmptyRange /\ DateOf(arg_start) = DateOf(arg_end)) =>
        /\ Len(calls) <= 1
        /\ \A j \in 1..Len(calls) :
               /\ calls[j].sub_start = arg_start
               /\ calls[j].sub_end = arg_end
        /\ (pc \in {"final", "final_write"} \/ outcome \in {"returned", "PipelineError"})
               => Len(calls) = 1

C6_Witness ==
    /\ outcome = "returned"
    /\ NonEmptyRange
    /\ DateOf(arg_start) = DateOf(arg_end)
    /\ calls = << [sub_start |-> arg_start, sub_end |-> arg_end,
                   folder |-> PartitionFolder(hydrophone, DateOf(arg_start))] >>

\* C7: a run of main whose effective end is not later than its effective start
\* is a no-op: the pipeline is not invoked, the checkpoint is not written, and
\* the run does not fail.
C7_EmptyRangeIsNoOp ==
    EmptyOrInvertedRange =>
        /\ calls = << >>
        /\ writes = << >>
        /\ file = pre.file
        /\ outcome \in {"none", "returned"}

\* C8: process_audio_data rejects a range with end <= start with an error
\* before planning: no pipeline invocation, no checkpoint write, and it does
\* not return normally.
C8_EmptyRangeRejected ==
    EmptyOrInvertedRange =>
        /\ calls = << >>
        /\ writes = << >>
        /\ file = pre.file
        /\ last_processed = pre.last_processed
        /\ outcome # "returned"

\* C9: when process_audio_data returns for a range with end > start, the
\* checkpoint in memory is the requested end, and the file holds it and reads
\* back as it.
C9_ReturnLeavesCheckpointAtEnd ==
    (outcome = "returned" /\ NonEmptyRange) =>
        /\ last_processed = arg_end
        /\ file = JsonDump(arg_end)
        /\ LoadValue(file) = arg_end

C9_Witness ==
    /\ outcome = "returned"
    /\ NonEmptyRange
    /\ Len(calls) >= 2
    /\ file = JsonDump(arg_end)

\* C10: when a pipeline invocation raises, process_audio_data is left at once
\* with the error, no update having been made for the failing partition, and
\* from then on no pipeline is invoked and no checkpoint update is made.
C10_FailureStopsTheRun ==
    [][ /\ outcome' = "PipelineError" =>
            /\ pc' = "idle"
            /\ Len(writes') = Len(calls') - 1
        /\ outcome = "PipelineError" =>
            /\ outcome' = "PipelineError"
            /\ UNCHANGED <<calls, writes, file, last_processed>>
      ]_vars

C10_Witness ==
    /\ outcome = "PipelineError"
    /\ pc = "idle"
    /\ Len(calls) >= 2
    /\ Len(calls) < Len(FullPlan)
    /\ NonEmptyRange

\* C11: whenever a run is stopped from outside, at any step and also between
\* the steps of Bookmark.update, the bookmark file is absent or holds one
\* complete record that Bookmark.load can read; it is never left empty.
C11_StoppedRunLeavesReadableCheckpoint ==
    outcome = "Killed" => (file = Absent \/ file.kind = "json")

\* C12: Bookmark.load on a path where no file exists raises nothing, leaves
\* last_processed None and creates or changes no file, and the run goes on; a
\* file that exists but cannot be decoded makes load raise, main ends with
\* that error, and nothing is processed or written.
C12_LoadSwallowsOnlyNotFound ==
    [][ pc = "idle" =>
            /\ file' = file
            /\ file = Absent =>
                   /\ last_processed' = None
                   /\ pre' = [file |-> Absent, last_processed |-> None]
                   /\ outcome' = "none"
                   /\ pc' = "entry"
            /\ file = Empty =>
                   /\ outcome' = "JSONDecodeError"
                   /\ pc' = "idle"
                   /\ UNCHANGED <<calls, writes>>
      ]_vars

C12_Witness ==
    /\ outcome = "JSONDecodeError"
    /\ file = Empty
    /\ pre.file = Absent
    /\ pre.last_processed = None

\* C13: once an update has written the file, loading that file gives the
\* datetime most recently passed to update, with the same instant and the same
\* UTC offset; the file holds the record of the latest update and no other.
C13_UpdateThenLoadRoundTrips ==
    file.kind = "json" =>
        /\ Len(writes) >= 1
        /\ LoadValue(file).t = writes[Len(writes)].t
        /\ LoadValue(file).off = writes[Len(writes)].off
        /\ file = JsonDump(writes[Len(writes)])

C13_Witness ==
    /\ file.kind = "json"
    /\ Len(writes) >= 2
    /\ writes[Len(writes)] # writes[1]
    /\ writes[Len(writes)].off = 0 - 7
    /\ LoadValue(file) = writes[Len(writes)]

\* C14: every pipeline invocation is given the folder of the run's hydrophone
\* and of the calendar date, at its own UTC offset, on which the interval it
\* is given starts; no two invocations of one run are given the same folder.
C14_FolderIsDateOfPartitionStart ==
    /\ \A j \in 1..Len(calls) :
           /\ calls[j].folder.hydrophone = hydrophone
           /\ calls[j].folder.date = CivilFromDays(DateOf(calls[j].sub_start))
    /\ \A j, k \in 1..Len(calls) : j # k => calls[j].folder # calls[k].folder

C14_Witness ==
    /\ outcome = "returned"
    /\ Len(calls) >= 3
    /\ calls[1].sub_start.off = 0 - 7
    /\ calls[2].folder.date = [year |-> 2026, month |-> 3, day |-> 8]

\* C15: a run of main is given the range from the loaded checkpoint to now,
\* or from one hour before now to now when no checkpoint file exists, with now
\* the US/Pacific reading of the clock; a run that began without a checkpoint
\* and returns leaves the checkpoint equal to now.
C15_MainPassesEffectiveRange ==
    arg_start # None =>
        /\ arg_end.t = clock
        /\ arg_end.off = PacificOffset(clock)
        /\ pre.file = Absent =>
               /\ arg_start.t = clock - 1
               /\ arg_start.off = arg_end.off
               /\ outcome = "returned" =>
                      (last_processed = arg_end /\ LoadValue(file) = arg_end)
        /\ pre.file # Absent =>
               /\ arg_start = FromIsoFormat(pre.file.last_processed)
               /\ arg_start = pre.last_processed

C15_Witness ==
    /\ outcome = "returned"
    /\ pre.file = Absent
    /\ Len(calls) = 2
    /\ LoadValue(file) = arg_end

C15_WitnessLoaded ==
    /\ outcome = "returned"
    /\ pre.file # Absent
    /\ arg_start.t < arg_end.t - 24

\* the pipeline invocations of the current run that have returned
Completed ==
    IF outcome = "PipelineError" THEN SubSeq(calls, 1, Len(calls) - 1) ELSE calls

\* C16: every value process_audio_data writes to the checkpoint is the end of
\* an interval whose pipeline invocation has returned in that run, and is not
\* later than the end the run was asked for.
C16_CheckpointOnlyOverCompletedWork ==
    \A j \in 1..Len(writes) :
        /\ \E c \in 1..Len(Completed) : Completed[c].sub_end = writes[j]
        /\ writes[j].t <= arg_end.t

\* C17: the partitioned run is strictly sequential: when the update for
\* partition i is called, the pipeline invocation of partition i has returned
\* and the update is given that partition's end; when the pipeline of
\* partition i+1 is about to be constructed, the update of partition i has
\* completed and the file holds its value.
C17_StrictlySequential ==
    /\ pc = "loop" =>
           /\ Len(calls) = i
           /\ Len(writes) = i
           /\ i > 0 => (writes[i] = calls[i].sub_end /\ file = JsonDump(writes[i]))
    /\ pc = "update" =>
           /\ Len(calls) = i + 1
           /\ Len(writes) = i
           /\ UpdateArgument = calls[i + 1].sub_end
    /\ pc = "update_write" =>
           /\ Len(calls) = i + 1
           /\ Len(writes) = i + 1
           /\ writes[i + 1] = calls[i + 1].sub_end
    /\ Len(writes) <= Len(calls) + 1

C17_Witness ==
    /\ pc = "loop"
    /\ i = 2
    /\ Len(calls) = 2
    /\ file = JsonDump(calls[2].sub_end)
    /\ calls[2].sub_end # calls[1].sub_end

\* C18: every run that returns after n >= 1 pipeline invocations
\* has written the checkpoint exactly n+1 times: the end of each partition, in
\* order, and then the requested end.
C18_WritesOncePerPartitionPlusFinal ==
    (outcome = "returned" /\ Len(calls) >= 1) =>
        /\ Len(writes) = Len(calls) + 1
        /\ \A j \in 1..Len(calls) : writes[j] = calls[j].sub_end
        /\ writes[Len(writes)] = arg_end

\* C19: for a range with end > start, also when end is exactly a local
\* midnight, every interval passed to the pipeline is non-empty: it starts
\* strictly before it ends.
C19_NoEmptyPartition ==
    NonEmptyRange =>
        \A j \in 1..Len(calls) : calls[j].sub_start.t < calls[j].sub_end.t

\* C20: when open or the write raises inside Bookmark.update, the run is left
\* at once with that error, the file being what the failed step left, and
\* from then on no pipeline is invoked and no checkpoint update is made.
C20_UpdateFailureStopsTheRun ==
    [][ /\ (outcome' = "OSError" /\ outcome # "OSError") =>
            /\ pc \in {"update", "final", "update_write", "final_write"}
            /\ pc' = "idle"
            /\ UNCHANGED <<calls, writes, file>>
        /\ outcome = "OSError" =>
            /\ outcome' = "OSError"
            /\ UNCHANGED <<calls, writes, file, last_processed>>
      ]_vars

C20_Witness ==
    /\ outcome = "OSError"
    /\ pc = "idle"
    /\ NonEmptyRange
    /\ Len(calls) >= 1
    /\ Len(calls) < Len(FullPlan)
    /\ file = Empty

C20_WitnessOpen ==
    /\ outcome = "OSError"
    /\ pc = "idle"
    /\ Len(calls) = 2
    /\ Len(calls) < Len(FullPlan)
    /\ Len(writes) = 1
    /\ file = JsonDump(writes[1])
    /\ last_processed = calls[2].sub_end

====
